---------------------------- MODULE Spec2Model ----------------------------
(***************************************************************************)
(* jarvis-orm: the dependency-aware DDL core.                              *)
(*   src/src/core/strategy/dependency.py   DependencyGraph                 *)
(*   src/src/core/strategy/ddl.py          DDLStrategy, DDLOperation       *)
(*                                                                         *)
(* A table class is the record [name, fks]: its canonical (lower-case)     *)
(* name and the set of names its foreign-key fields target.  A Python set  *)
(* is iterated in an order fixed by the interpreter's string hashing; that *)
(* order is the variable hashOrder, chosen once per process.               *)
(***************************************************************************)
EXTENDS Integers, Sequences, FiniteSets, TLC

Names == {"company", "person", "project"}

\* longest operation list handed to execute_operations
MaxOps == 3
\* most operations submitted to one strategy over all its calls
MaxSubmitted == MaxOps
\* longest arbitrary operation list handed to the read-only queries
MaxAudited == 2

VARIABLES
    tables,               \* DependencyGraph.tables: the classes, in insertion order
    dependencies,         \* DependencyGraph.dependencies: name -> names it depends on
    dependents,           \* DependencyGraph.dependents: name -> names depending on it
    hashOrder,            \* iteration order of Python sets of names
    executed_operations,  \* DDLStrategy.executed_operations
    adapterLog,           \* every call the adapter has received, in order
    submitted,            \* number of operations submitted to the strategy so far
    last,                 \* the last call on the strategy or graph, and its outcome
    engine,               \* Engine: _registered_tables, dependency_graph, ddl_strategy
    orm                   \* a Table class's Field values, its instances, its stored rows

vars == <<tables, dependencies, dependents, hashOrder, executed_operations,
          adapterLog, submitted, last, engine, orm>>

graphVars == <<tables, dependencies, dependents>>

-----------------------------------------------------------------------------
(* Helpers on sequences and sets *)

Range(s) == {s[i] : i \in 1..Len(s)}

Front(s) == SubSeq(s, 1, Len(s) - 1)

Reverse(s) == [i \in 1..Len(s) |-> s[Len(s) + 1 - i]]

\* list.index(x): the first position of x
IndexOf(s, x) == CHOOSE i \in 1..Len(s) : s[i] = x /\ \A j \in 1..(i - 1) : s[j] # x

Perms(S) == {p \in [1..Cardinality(S) -> S] : \A i, j \in 1..Cardinality(S) : p[i] = p[j] => i = j}

\* `for x in some_set`: the elements of S in the interpreter's order
SetIter(S) == SelectSeq(hashOrder, LAMBDA n : n \in S)

TableClasses == [name : Names, fks : SUBSET Names]

-----------------------------------------------------------------------------
(* DependencyGraph *)

\* `for table in self.tables`: the keys, in insertion order
TableNames == [i \in 1..Len(tables) |-> tables[i].name]

\* self.tables[name]
TableOf(name) == tables[IndexOf(TableNames, name)]

Registered == Range(TableNames)

\* the foreign-key edges a -> b of the graph
Edges == {e \in Names \X Names : e[2] \in dependencies[e[1]]}

\* dict assignment self.tables[table_name] = table
PutTable(ts, table) ==
    IF \E i \in 1..Len(ts) : ts[i].name = table.name
    THEN [i \in 1..Len(ts) |-> IF ts[i].name = table.name THEN table ELSE ts[i]]
    ELSE Append(ts, table)

AddTableDependencies(deps, table) ==
    [deps EXCEPT ![table.name] = @ \cup table.fks]

AddTableDependentsForgotten(depd, table) == depd

AddTableDependentsOverwriting(depd, table) ==
    [n \in Names |-> IF n \in table.fks THEN {table.name} ELSE depd[n]]

AddTableDependents(depd, table) ==
    [n \in Names |-> IF n \in table.fks THEN depd[n] \cup {table.name} ELSE depd[n]]

\* DependencyGraph(): no table, no edge
EmptyGraph ==
    [tables |-> <<>>, dependencies |-> [n \in Names |-> {}], dependents |-> [n \in Names |-> {}]]

\* add_table(table) on the graph g
add_table(g, table) ==
    [tables |-> PutTable(g.tables, table),
     dependencies |-> AddTableDependencies(g.dependencies, table),
     dependents |-> AddTableDependents(g.dependents, table)]

RECURSIVE add_tables(_, _)
\* add_tables(tables): `for table in tables: self.add_table(table)`
add_tables(g, ts) ==
    IF ts = <<>> THEN g ELSE add_tables(add_table(g, Head(ts)), Tail(ts))

\* the graph of the state
Graph == [tables |-> tables, dependencies |-> dependencies, dependents |-> dependents]

NoCycle == <<>>

CyclePathWhole(path, neighbor) == path \o <<neighbor>>

\* path[cycle_start:] + [neighbor], cycle_start = path.index(neighbor)
CyclePath(path, neighbor) ==
    SubSeq(path, IndexOf(path, neighbor), Len(path)) \o <<neighbor>>

RECURSIVE dfs(_, _)
RECURSIVE dfsNeighbors(_, _)
\* the loop `for neighbor in self.dependencies.get(node, set())` of dfs
dfsNeighbors(nbrs, st) ==
    IF nbrs = <<>> THEN st
    ELSE LET neighbor == Head(nbrs) IN
         IF neighbor \notin st.visited
         THEN LET r == dfs(neighbor, st) IN
              IF r.cycle # NoCycle THEN r ELSE dfsNeighbors(Tail(nbrs), r)
         ELSE IF neighbor \in st.rec_stack
         THEN [st EXCEPT !.cycle = CyclePath(st.path, neighbor)]
         ELSE dfsNeighbors(Tail(nbrs), st)

dfs(node, st) ==
    LET entered == [st EXCEPT !.visited = @ \cup {node},
                              !.rec_stack = @ \cup {node},
                              !.path = Append(@, node)]
        after == dfsNeighbors(SetIter(dependencies[node]), entered)
    IN  IF after.cycle # NoCycle THEN after
        ELSE [after EXCEPT !.path = Front(@), !.rec_stack = @ \ {node}]

RECURSIVE detectFrom(_, _)
\* the loop `for table in self.tables` of _detect_cycle
detectFrom(names, st) ==
    IF names = <<>> THEN NoCycle
    ELSE IF Head(names) \in st.visited THEN detectFrom(Tail(names), st)
    ELSE LET r == dfs(Head(names), st) IN
         IF r.cycle # NoCycle THEN r.cycle ELSE detectFrom(Tail(names), r)

detect_cycle ==
    detectFrom(TableNames, [visited |-> {}, rec_stack |-> {}, path |-> <<>>, cycle |-> NoCycle])

\* in_degree after the counting loop of _topological_sort (lines 88-91)
InDegree == [n \in Names |-> Cardinality({t \in Registered : n \in dependencies[t]})]

RECURSIVE kahnDependents(_, _)
\* the loop `for dependent in self.dependents.get(node, set())`
kahnDependents(ds, st) ==
    IF ds = <<>> THEN st
    ELSE LET d == Head(ds)
             deg == st.in_degree[d] - 1
         IN  kahnDependents(Tail(ds),
                 [st EXCEPT !.in_degree = [@ EXCEPT ![d] = deg],
                            !.queue = IF deg = 0 THEN Append(@, d) ELSE @])

RECURSIVE kahn(_)
\* the loop `while queue`
kahn(st) ==
    IF st.queue = <<>> THEN st.result
    ELSE LET node == Head(st.queue)
             popped == [st EXCEPT !.queue = Tail(@), !.result = Append(@, node)]
         IN  kahn(kahnDependents(SetIter(dependents[node]), popped))

KahnResult ==
    LET in_degree == InDegree IN
    kahn([in_degree |-> in_degree,
          queue |-> SelectSeq(TableNames, LAMBDA t : in_degree[t] = 0),
          result |-> <<>>])

Returned(v) == [raised |-> FALSE, exc |-> "", cycle |-> <<>>, value |-> v]

Raised(e, c) == [raised |-> TRUE, exc |-> e, cycle |-> c, value |-> <<>>]

topological_sortUnchecked ==
    LET cycle == detect_cycle IN
    IF cycle # NoCycle THEN Raised("CircularDependencyError", cycle)
    ELSE Returned(KahnResult)

\* DependencyGraph._topological_sort(): the cycle check, then Kahn's algorithm
topological_sort ==
    LET cycle == detect_cycle
        result == KahnResult
    IN  IF cycle # NoCycle THEN Raised("CircularDependencyError", cycle)
        ELSE IF Len(result) # Len(tables)
        THEN Raised("CircularDependencyError", <<"Unknown cycle in graph">>)
        ELSE Returned(result)

get_creation_orderUnguarded ==
    LET ordered_names == KahnResult IN
    Returned([i \in 1..Len(ordered_names) |-> TableOf(ordered_names[i])])

\* DependencyGraph.get_creation_order(): the classes of the sorted names
get_creation_order ==
    LET ordered_names == topological_sort IN
    IF ordered_names.raised THEN ordered_names
    ELSE Returned([i \in 1..Len(ordered_names.value) |-> TableOf(ordered_names.value[i])])

get_deletion_orderNotReversed == get_creation_order

\* DependencyGraph.get_deletion_order(): the creation order reversed
get_deletion_order ==
    LET order == get_creation_order IN
    IF order.raised THEN order ELSE Returned(Reverse(order.value))

NamesOf(classes) == {t.name : t \in classes}

\* the classes named by a set of registered names: {self.tables[name] ...}
ClassesOf(names) == {TableOf(n) : n \in names}

\* DependencyGraph.get_dependencies(table), table named `name`: the lookup
\* self.tables[name] raises KeyError for a name that is not registered
get_dependencies(name) ==
    IF dependencies[name] \subseteq Registered
    THEN Returned(ClassesOf(dependencies[name]))
    ELSE Raised("KeyError", <<>>)

get_dependentsOfRegistered(name) ==
    IF name \in Registered THEN Returned(ClassesOf(dependents[name])) ELSE Returned({})

\* DependencyGraph.get_dependents(table), table named `name`
get_dependents(name) ==
    IF dependents[name] \subseteq Registered
    THEN Returned(ClassesOf(dependents[name]))
    ELSE Raised("KeyError", <<>>)

\* the levels a table can get: 0 .. (number of names - 1)
Levels == 0..(Cardinality(Names) - 1)

\* table_levels before any level is known; -1 stands for an absent key
NoLevels == [n \in Names |-> -1]

LevelError == -1

Max(a, b) == IF a >= b THEN a ELSE b

levelOfNoIncrement(deepest) == deepest

\* level = max(...) + 1
levelOf(deepest) == deepest + 1

RECURSIVE get_level(_, _, _)
RECURSIVE levelMax(_, _, _, _)
\* max(get_level(dep) for dep in deps): deps in iteration order, `deepest`
\* the maximum so far
levelMax(deps, deepest, table_levels, stack) ==
    IF deps = <<>> THEN [level |-> deepest, table_levels |-> table_levels]
    ELSE LET r == get_level(Head(deps), table_levels, stack) IN
         IF r.level = LevelError THEN r
         ELSE levelMax(Tail(deps), Max(deepest, r.level), r.table_levels, stack)

\* get_level(table_name) of get_dependency_levels, with the memo table_levels;
\* `stack` holds the names whose call is still running: a name met again
\* while its own call runs recurses without end (RecursionError)
get_level(table_name, table_levels, stack) ==
    IF table_levels[table_name] # -1
    THEN [level |-> table_levels[table_name], table_levels |-> table_levels]
    ELSE IF table_name \in stack
    THEN [level |-> LevelError, table_levels |-> table_levels]
    ELSE IF dependencies[table_name] = {}
    THEN [level |-> 0, table_levels |-> [table_levels EXCEPT ![table_name] = 0]]
    ELSE LET r == levelMax(SetIter(dependencies[table_name]), 0, table_levels,
                           stack \cup {table_name})
         IN  IF r.level = LevelError THEN r
             ELSE [level |-> levelOf(r.level),
                   table_levels |-> [r.table_levels EXCEPT ![table_name] = levelOf(r.level)]]

RECURSIVE levelsLoop(_, _, _)
\* `for table_name, table in self.tables.items()`: levels[level].append(table)
levelsLoop(i, levels, table_levels) ==
    IF i > Len(tables) THEN Returned(levels)
    ELSE LET r == get_level(tables[i].name, table_levels, {}) IN
         IF r.level = LevelError THEN Raised("RecursionError", <<>>)
         ELSE levelsLoop(i + 1, [levels EXCEPT ![r.level] = Append(@, tables[i])],
                         r.table_levels)

\* DependencyGraph.get_dependency_levels(): level -> list of classes; a level
\* with an empty list is a key the returned dict does not have
get_dependency_levels == levelsLoop(1, [lv \in Levels |-> <<>>], NoLevels)

-----------------------------------------------------------------------------
(* DDLOperation and DDLStrategy *)

OperationType == {"CREATE_TABLE", "DROP_TABLE", "ALTER_TABLE", "CREATE_INDEX", "DROP_INDEX"}

\* DDLOperation(operation_type, table); details stay None
DDLOperation(kind, table) == [operation_type |-> kind, table |-> table]

\* DDLOperation.__str__: "<kind>: <table name>"
StrOp(op) == <<op.operation_type, op.table.name>>

\* exceptions: the type's name and str(e)
None == [type |-> "None", error |-> <<>>]

\* what the adapter raises when its call for op fails
AdapterError(op) == [type |-> "OperationalError", error |-> <<"adapter", StrOp(op)>>]

NotImplemented(op) ==
    [type |-> "NotImplementedError", error |-> <<"not implemented", op.operation_type>>]

\* what a raising callback raises
CallbackError == [type |-> "RuntimeError", error |-> <<"callback">>]

AdapterCall(method, op) == [method |-> method, table |-> op.table]

execute_operationLogFirst(op, fails, executed, adapter) ==
    IF op.operation_type = "CREATE_TABLE"
    THEN [exc |-> IF fails THEN AdapterError(op) ELSE None,
          executed |-> Append(executed, op),
          adapter |-> Append(adapter, AdapterCall("create_table", op))]
    ELSE IF op.operation_type = "DROP_TABLE"
    THEN [exc |-> IF fails THEN AdapterError(op) ELSE None,
          executed |-> Append(executed, op),
          adapter |-> Append(adapter, AdapterCall("drop_table", op))]
    ELSE [exc |-> NotImplemented(op), executed |-> executed, adapter |-> adapter]

\* DDLStrategy.execute_operation(op): the exception it raises (None when it
\* returns), executed_operations and the adapter's calls afterwards;
\* `fails` says whether the adapter call raises
execute_operation(op, fails, executed, adapter) ==
    IF op.operation_type = "CREATE_TABLE"
    THEN [exc |-> IF fails THEN AdapterError(op) ELSE None,
          executed |-> IF fails THEN executed ELSE Append(executed, op),
          adapter |-> Append(adapter, AdapterCall("create_table", op))]
    ELSE IF op.operation_type = "DROP_TABLE"
    THEN [exc |-> IF fails THEN AdapterError(op) ELSE None,
          executed |-> IF fails THEN executed ELSE Append(executed, op),
          adapter |-> Append(adapter, AdapterCall("drop_table", op))]
    ELSE [exc |-> NotImplemented(op), executed |-> executed, adapter |-> adapter]

\* a callback is absent (given = FALSE) or raises exactly when it is called
\* with a success flag in raisesOn
NoCallback == [given |-> FALSE, raisesOn |-> {}]

Callbacks == {NoCallback} \cup [given : {TRUE}, raisesOn : SUBSET BOOLEAN]

\* one entry of the call's trace: the loop reaching position `index`
\* ("start"), the adapter being called ("adapter") or the callback ("callback")
Event(ev, i, op, success, exc) ==
    [ev |-> ev, index |-> i, operation |-> op, success |-> success, exception |-> exc]

ErrorEntryNoType(op, exc) == [operation |-> StrOp(op), error |-> exc.error, type |-> "Exception"]

ErrorEntry(op, exc) == [operation |-> StrOp(op), error |-> exc.error, type |-> exc.type]

onFailureNoBreak(i, op, exc, call, st) ==
    LET counted == [st EXCEPT !.failed = @ + 1,
                              !.errors = Append(@, ErrorEntry(op, exc))]
    IN  IF ~call.callback.given THEN counted
        ELSE LET told == [counted EXCEPT
                            !.events = Append(@, Event("callback", i, op, FALSE, exc))]
             IN  IF FALSE \in call.callback.raisesOn
                 THEN [told EXCEPT !.escaped = CallbackError, !.halt = TRUE]
                 ELSE told

onFailureAlwaysBreak(i, op, exc, call, st) ==
    LET counted == [st EXCEPT !.failed = @ + 1,
                              !.errors = Append(@, ErrorEntry(op, exc))]
    IN  IF ~call.callback.given THEN [counted EXCEPT !.halt = TRUE]
        ELSE LET told == [counted EXCEPT
                            !.events = Append(@, Event("callback", i, op, FALSE, exc))]
             IN  IF FALSE \in call.callback.raisesOn
                 THEN [told EXCEPT !.escaped = CallbackError, !.halt = TRUE]
                 ELSE [told EXCEPT !.halt = TRUE]

onFailureRollingBack(i, op, exc, call, st) ==
    LET counted == [st EXCEPT !.failed = @ + 1,
                              !.errors = Append(@, ErrorEntry(op, exc)),
                              !.executed = IF @ = <<>> THEN @ ELSE Front(@)]
    IN  IF ~call.callback.given
        THEN [counted EXCEPT !.halt = call.stop_on_error]
        ELSE LET told == [counted EXCEPT
                            !.events = Append(@, Event("callback", i, op, FALSE, exc))]
             IN  IF FALSE \in call.callback.raisesOn
                 THEN [told EXCEPT !.escaped = CallbackError, !.halt = TRUE]
                 ELSE [told EXCEPT !.halt = call.stop_on_error]

\* the except branch of the loop body (lines 143-155): count and record the
\* failure, report it, then stop or go on
onFailure(i, op, exc, call, st) ==
    LET counted == [st EXCEPT !.failed = @ + 1,
                              !.errors = Append(@, ErrorEntry(op, exc))]
    IN  IF ~call.callback.given
        THEN [counted EXCEPT !.halt = call.stop_on_error]
        ELSE LET told == [counted EXCEPT
                            !.events = Append(@, Event("callback", i, op, FALSE, exc))]
             IN  IF FALSE \in call.callback.raisesOn
                 THEN [told EXCEPT !.escaped = CallbackError, !.halt = TRUE]
                 ELSE [told EXCEPT !.halt = call.stop_on_error]

\* the try branch (lines 136-141): run the operation, count it, report it
loopBody(i, op, call, st) ==
    LET r == execute_operation(op, i \in call.failAt, st.executed, st.adapter)
        started == Append(st.events, Event("start", i, op, TRUE, None))
        ran == [st EXCEPT !.executed = r.executed, !.adapter = r.adapter,
                          !.events = IF r.adapter = st.adapter THEN started
                                     ELSE Append(started,
                                              Event("adapter", i, op, r.exc = None, r.exc))]
    IN  IF r.exc # None THEN onFailure(i, op, r.exc, call, ran)
        ELSE LET counted == [ran EXCEPT !.successful = @ + 1] IN
             IF ~call.callback.given THEN counted
             ELSE LET told == [counted EXCEPT
                                 !.events = Append(@, Event("callback", i, op, TRUE, None))]
                  IN  IF TRUE \in call.callback.raisesOn
                      THEN onFailure(i, op, CallbackError, call, told)
                      ELSE told

RECURSIVE execLoop(_, _, _)
\* `for operation in operations`, left by `break` or by an escaping exception
execLoop(i, call, st) ==
    IF i > Len(call.operations) \/ st.halt THEN st
    ELSE execLoop(i + 1, call, loopBody(i, call.operations[i], call, st))

\* DDLStrategy.execute_operations(operations, stop_on_error, callback), with
\* failAt the positions whose adapter call raises
execute_operations(call, executed, adapter) ==
    execLoop(1, call,
        [total |-> Len(call.operations), successful |-> 0, failed |-> 0, errors |-> <<>>,
         executed |-> executed, adapter |-> adapter,
         events |-> <<>>, escaped |-> None, halt |-> FALSE])

\* DDLStrategy.plan_create_all(): one CREATE_TABLE per table, in creation order
plan_create_all ==
    LET creation_order == get_creation_order IN
    IF creation_order.raised THEN creation_order
    ELSE Returned([i \in 1..Len(creation_order.value) |->
                      DDLOperation("CREATE_TABLE", creation_order.value[i])])

\* DDLStrategy.plan_drop_all(): one DROP_TABLE per table, in deletion order
plan_drop_all ==
    LET deletion_order == get_deletion_order IN
    IF deletion_order.raised THEN deletion_order
    ELSE Returned([i \in 1..Len(deletion_order.value) |->
                      DDLOperation("DROP_TABLE", deletion_order.value[i])])

\* the operations of a list whose table is named in level_tables, in list order
GroupOf(operations, level_tables) ==
    SelectSeq(operations, LAMBDA op : op.table.name \in level_tables)

\* sorted(levels.keys()): the levels that hold a table, lowest first
LevelOrder(levels) ==
    LET keys == {lv \in Levels : levels[lv] # <<>>}
        up == [i \in 1..Cardinality(Levels) |-> i - 1]
    IN  SelectSeq(up, LAMBDA lv : lv \in keys)

RECURSIVE groupsLoop(_, _, _, _)
\* `for level in sorted(levels.keys())`: a non-empty group is appended
groupsLoop(order, levels, operations, groups) ==
    IF order = <<>> THEN groups
    ELSE LET level_tables == NamesOf(Range(levels[Head(order)]))
             group == GroupOf(operations, level_tables)
         IN  groupsLoop(Tail(order), levels, operations,
                        IF group # <<>> THEN Append(groups, group) ELSE groups)

\* DDLStrategy.get_parallel_groups(operations)
get_parallel_groups(operations) ==
    LET levels == get_dependency_levels IN
    IF levels.raised THEN levels
    ELSE Returned(groupsLoop(LevelOrder(levels.value), levels.value, operations, <<>>))

\* the issues of validate_operations; the third names its dependents as a set,
\* the order of the names in the message being that of a set of classes
DuplicateIssue(op) == [issue |-> "Duplicate operation", operation |-> StrOp(op), names |-> {}]

UnregisteredIssue(op) ==
    [issue |-> "Operation on unregistered table", operation |-> StrOp(op), names |-> {}]

DependentsIssue(op, classes) ==
    [issue |-> "DROP has dependents", operation |-> StrOp(op), names |-> NamesOf(classes)]

\* key = (op.operation_type, get_name(op.table))
OpKey(op) == <<op.operation_type, op.table.name>>

\* first loop (lines 201-206): an operation whose key was seen before
duplicateIssues(operations) ==
    LET positions == SelectSeq([i \in 1..Len(operations) |-> i],
                         LAMBDA i : \E j \in 1..(i - 1) : OpKey(operations[j]) = OpKey(operations[i]))
    IN  [k \in 1..Len(positions) |-> DuplicateIssue(operations[positions[k]])]

\* second loop (lines 209-212)
unregisteredIssuesNone(operations) == <<>>

unregisteredIssues(operations) ==
    LET found == SelectSeq(operations, LAMBDA op : op.table.name \notin Registered)
    IN  [k \in 1..Len(found) |-> UnregisteredIssue(found[k])]

RECURSIVE dropIssues(_, _)
\* third loop (lines 215-220); an exception of get_dependents would leave it
dropIssues(operations, issues) ==
    IF operations = <<>> THEN Returned(issues)
    ELSE LET op == Head(operations)
             found == get_dependents(op.table.name)
         IN  IF op.operation_type # "DROP_TABLE" THEN dropIssues(Tail(operations), issues)
             ELSE IF found.raised THEN found
             ELSE IF found.value # {}
             THEN dropIssues(Tail(operations), Append(issues, DependentsIssue(op, found.value)))
             ELSE dropIssues(Tail(operations), issues)

\* DDLStrategy.validate_operations(operations)
validate_operations(operations) ==
    dropIssues(operations, duplicateIssues(operations) \o unregisteredIssues(operations))

-----------------------------------------------------------------------------
(* State machine *)

NoCall == [method |-> "none"]

\* Engine.__init__: no registered table, a fresh graph and a fresh strategy
NewEngine ==
    [registered_tables |-> <<>>, dependency_graph |-> EmptyGraph,
     ddl_strategy |-> [dependency_graph |-> EmptyGraph, executed_operations |-> <<>>]]

\* the default None of a Field's value, written 0 for the integer field and
\* "" for the text field: no call passes these values
Unset == [id |-> 0, name |-> ""]

\* a Table class with the fields id (primary key) and name: the Field objects
\* are attributes of the class; no instance yet, no stored row
NewOrm == [fields |-> Unset, instances |-> <<>>, rows |-> {}]

Init ==
    /\ tables = <<>>
    /\ dependencies = [n \in Names |-> {}]
    /\ dependents = [n \in Names |-> {}]
    /\ hashOrder \in Perms(Names)
    /\ executed_operations = <<>>
    /\ adapterLog = <<>>
    /\ submitted = 0
    /\ last = NoCall
    /\ engine = NewEngine
    /\ orm = NewOrm

\* DependencyGraph.add_table(table): a class is added under its own name;
\* a name that is already registered is re-added with the same class
AddTable(table) ==
    /\ \A i \in 1..Len(tables) : tables[i].name = table.name => tables[i] = table
    /\ tables' = PutTable(tables, table)
    /\ dependencies' = AddTableDependencies(dependencies, table)
    /\ dependents' = AddTableDependents(dependents, table)
    /\ last' = [method |-> "add_table", table |-> table]
    /\ UNCHANGED <<hashOrder, engine, orm, executed_operations, adapterLog, submitted>>

GetCreationOrderDraining ==
    /\ last' = [method |-> "get_creation_order", result |-> get_creation_order]
    /\ dependents' = IF get_creation_order.raised THEN [n \in Names |-> {}] ELSE dependents
    /\ UNCHANGED <<tables, dependencies, hashOrder, engine, orm, executed_operations,
                   adapterLog, submitted>>

\* DependencyGraph.get_creation_order()
GetCreationOrder ==
    /\ last' = [method |-> "get_creation_order", result |-> get_creation_order]
    /\ UNCHANGED <<graphVars, hashOrder, engine, orm, executed_operations, adapterLog, submitted>>

\* the operations of direct calls: two tables, and ALTER_TABLE for the three
\* kinds execute_operation does not implement
PlainClasses == {[name |-> n, fks |-> {}] : n \in {"company", "person"}}

OpInputs ==
    {DDLOperation(k, c) : k \in {"CREATE_TABLE", "DROP_TABLE", "ALTER_TABLE"}, c \in PlainClasses}

\* the operation lists of at most n operations
OpLists(n) == UNION {[1..k -> OpInputs] : k \in 0..n}

Min(a, b) == IF a <= b THEN a ELSE b

UsesAdapter(op) == op.operation_type \in {"CREATE_TABLE", "DROP_TABLE"}

\* DDLStrategy.execute_operation(op)
ExecuteOperation(op, fails) ==
    /\ submitted < MaxSubmitted
    /\ LET r == execute_operation(op, fails, executed_operations, adapterLog) IN
        /\ executed_operations' = r.executed
        /\ adapterLog' = r.adapter
        /\ last' = [method |-> "execute_operation", operation |-> op, fails |-> fails,
                    exc |-> r.exc,
                    executedBefore |-> executed_operations, adapterBefore |-> adapterLog]
    /\ submitted' = submitted + 1
    /\ UNCHANGED <<graphVars, hashOrder, engine, orm>>

\* DDLStrategy.execute_operations(operations, stop_on_error, callback).
\* A batch call is followed here from a strategy that single-operation calls
\* have brought to its state: a batch call leaves executed_operations and the
\* adapter as the same operations run one by one do.
ExecuteOperations(call) ==
    /\ submitted + Len(call.operations) <= MaxSubmitted
    /\ LET out == execute_operations(call, executed_operations, adapterLog) IN
        /\ executed_operations' = out.executed
        /\ adapterLog' = out.adapter
        /\ last' = [method |-> "execute_operations", call |-> call, out |-> out,
                    executedBefore |-> executed_operations, adapterBefore |-> adapterLog]
    /\ submitted' = submitted + Len(call.operations)
    /\ UNCHANGED <<graphVars, hashOrder, engine, orm>>

ExecNext ==
    \/ \E op \in OpInputs, fails \in BOOLEAN :
          (fails => UsesAdapter(op)) /\ ExecuteOperation(op, fails)
    \/ /\ last.method # "execute_operations"
       /\ \E ops \in OpLists(Min(MaxOps, MaxSubmitted - submitted)),
             stop \in BOOLEAN, cb \in Callbacks :
          \E failAt \in SUBSET {i \in 1..Len(ops) : UsesAdapter(ops[i])} :
              ExecuteOperations([operations |-> ops, failAt |-> failAt,
                                 stop_on_error |-> stop, callback |-> cb])

\* the executor never iterates a set: one iteration order stands for all
InitExec == Init /\ hashOrder = CHOOSE p \in Perms(Names) : TRUE

SpecExec == InitExec /\ [][ExecNext]_vars

\* the adapter-failure patterns of a plan: none when planning raises
FailPatterns(plan) == IF plan.raised THEN {{}} ELSE SUBSET (1..Len(plan.value))

\* plan + execute: DDLStrategy.create_all / drop_all on the plan `plan`, with
\* failAt the positions of the plan whose adapter call raises
PlanAndExecute(method, plan, stop, failAt) ==
    IF plan.raised
    THEN /\ last' = [method |-> method, raised |-> TRUE, exc |-> plan.exc,
                     cycle |-> plan.cycle,
                     executedBefore |-> executed_operations, adapterBefore |-> adapterLog]
         /\ UNCHANGED <<executed_operations, adapterLog, submitted>>
    ELSE LET call == [operations |-> plan.value, failAt |-> failAt,
                      stop_on_error |-> stop, callback |-> NoCallback]
             out == execute_operations(call, executed_operations, adapterLog)
         IN  /\ submitted + Len(plan.value) <= MaxSubmitted
             /\ executed_operations' = out.executed
             /\ adapterLog' = out.adapter
             /\ submitted' = submitted + Len(plan.value)
             /\ last' = [method |-> method, raised |-> FALSE, call |-> call, out |-> out,
                         executedBefore |-> executed_operations,
                         adapterBefore |-> adapterLog]

\* DDLStrategy.create_all(stop_on_error)
CreateAll ==
    /\ LET plan == plan_create_all IN
       \E stop \in BOOLEAN : \E failAt \in FailPatterns(plan) :
           PlanAndExecute("create_all", plan, stop, failAt)
    /\ UNCHANGED <<graphVars, hashOrder, engine, orm>>

\* DDLStrategy.drop_all(stop_on_error)
DropAll ==
    /\ LET plan == plan_drop_all IN
       \E stop \in BOOLEAN : \E failAt \in FailPatterns(plan) :
           PlanAndExecute("drop_all", plan, stop, failAt)
    /\ UNCHANGED <<graphVars, hashOrder, engine, orm>>

\* DDLStrategy.register_tables([table]): add_tables on the strategy's graph.
\* Tables are registered until the strategy has executed its second plan.
RegisterTables(table) ==
    /\ submitted <= Len(tables)
    /\ \A i \in 1..Len(tables) : tables[i].name = table.name => tables[i] = table
    /\ tables' = PutTable(tables, table)
    /\ dependencies' = AddTableDependencies(dependencies, table)
    /\ dependents' = AddTableDependents(dependents, table)
    /\ last' = [method |-> "register_tables"]
    /\ UNCHANGED <<hashOrder, engine, orm, executed_operations, adapterLog, submitted>>

StrategyNext ==
    \/ \E table \in TableClasses : RegisterTables(table)
    \/ CreateAll
    \/ DropAll

SpecStrategy == Init /\ [][StrategyNext]_vars

\* DependencyGraph.get_deletion_order()
GetDeletionOrder ==
    /\ last' = [method |-> "get_deletion_order", result |-> get_deletion_order]
    /\ UNCHANGED <<graphVars, hashOrder, engine, orm, executed_operations, adapterLog, submitted>>

\* DependencyGraph.get_dependency_levels()
GetDependencyLevels ==
    /\ last' = [method |-> "get_dependency_levels", result |-> get_dependency_levels]
    /\ UNCHANGED <<graphVars, hashOrder, engine, orm, executed_operations, adapterLog, submitted>>

\* DependencyGraph.get_dependencies(table) for a class named `name`
GetDependencies(name) ==
    /\ last' = [method |-> "get_dependencies", name |-> name,
                result |-> get_dependencies(name)]
    /\ UNCHANGED <<graphVars, hashOrder, engine, orm, executed_operations, adapterLog, submitted>>

\* DependencyGraph.get_dependents(table) for a class named `name`
GetDependents(name) ==
    /\ last' = [method |-> "get_dependents", name |-> name,
                result |-> get_dependents(name)]
    /\ UNCHANGED <<graphVars, hashOrder, engine, orm, executed_operations, adapterLog, submitted>>

GraphNext ==
    \/ \E table \in TableClasses : AddTable(table)
    \/ GetCreationOrder
    \/ GetDeletionOrder
    \/ GetDependencyLevels
    \/ \E name \in Names : GetDependencies(name)
    \/ \E name \in Names : GetDependents(name)

SpecGraph == Init /\ [][GraphNext]_vars

\* the class an operation on the table named n carries: the registered class,
\* or a class without foreign keys when the name is not registered
OpClass(n) == IF n \in Registered THEN TableOf(n) ELSE [name |-> n, fks |-> {}]

AuditOps == {DDLOperation(k, OpClass(n)) : k \in {"CREATE_TABLE", "DROP_TABLE"}, n \in Names}

\* one operation of one kind per registered table, in any order
FullLists ==
    {[i \in 1..Len(tables) |-> DDLOperation(k, TableOf(p[i]))] :
        k \in {"CREATE_TABLE", "DROP_TABLE"}, p \in Perms(Registered)}

\* the lists handed to validate_operations and get_parallel_groups
AuditLists == FullLists \cup UNION {[1..k -> AuditOps] : k \in 0..MaxAudited}

ReadOnlyMethods ==
    {"plan_create_all", "plan_create_all_again", "plan_drop_all", "validate_operations",
     "get_parallel_groups"}

PlanCreateAllExecuting ==
    /\ last' = [method |-> "plan_create_all", result |-> plan_create_all]
    /\ executed_operations' =
          IF plan_create_all.raised THEN executed_operations
          ELSE executed_operations \o plan_create_all.value
    /\ UNCHANGED <<graphVars, hashOrder, engine, orm, adapterLog, submitted>>

PlanCreateAllConsuming ==
    /\ last' = [method |-> "plan_create_all", result |-> plan_create_all]
    /\ tables' = <<>>
    /\ UNCHANGED <<dependencies, dependents, hashOrder, engine, orm, executed_operations,
                   adapterLog, submitted>>

\* DDLStrategy.plan_create_all()
PlanCreateAll ==
    /\ last' = [method |-> "plan_create_all", result |-> plan_create_all]
    /\ UNCHANGED <<graphVars, hashOrder, engine, orm, executed_operations, adapterLog, submitted>>

\* DDLStrategy.plan_create_all(), called a second time directly after the
\* first call; `first` keeps what the first call answered
PlanCreateAllAgain ==
    /\ last.method = "plan_create_all"
    /\ last' = [method |-> "plan_create_all_again", first |-> last.result,
                result |-> plan_create_all]
    /\ UNCHANGED <<graphVars, hashOrder, engine, orm, executed_operations, adapterLog, submitted>>

\* DDLStrategy.plan_drop_all()
PlanDropAll ==
    /\ last' = [method |-> "plan_drop_all", result |-> plan_drop_all]
    /\ UNCHANGED <<graphVars, hashOrder, engine, orm, executed_operations, adapterLog, submitted>>

\* DDLStrategy.validate_operations(operations)
ValidateOperations(operations) ==
    /\ last' = [method |-> "validate_operations", operations |-> operations,
                result |-> validate_operations(operations)]
    /\ UNCHANGED <<graphVars, hashOrder, engine, orm, executed_operations, adapterLog, submitted>>

\* DDLStrategy.get_parallel_groups(operations)
GetParallelGroups(operations) ==
    /\ last' = [method |-> "get_parallel_groups", operations |-> operations,
                result |-> get_parallel_groups(operations)]
    /\ UNCHANGED <<graphVars, hashOrder, engine, orm, executed_operations, adapterLog, submitted>>

\* The queries on operation lists, on every graph.  A query leaves the
\* strategy as it found it, so a behaviour is followed up to its first query.
\* The results do not depend on the iteration order of a set (the levels are
\* the same under every order, LevelsAreDepths), so one order stands for all.
NoQueryYet == last.method \notin ReadOnlyMethods

AuditNext ==
    \/ NoQueryYet /\ \E table \in TableClasses : RegisterTables(table)
    \/ NoQueryYet /\ \E operations \in AuditLists : ValidateOperations(operations)
    \/ NoQueryYet /\ \E operations \in AuditLists : GetParallelGroups(operations)

SpecAudit == InitExec /\ [][AuditNext]_vars

\* the lists a strategy builds itself: one operation per table, in table order
OwnLists ==
    {[i \in 1..Len(tables) |-> DDLOperation(k, tables[i])] : k \in {"CREATE_TABLE", "DROP_TABLE"}}

\* Planning and the queries on a strategy that has executed plans before.
ReadOnlyNext ==
    \/ NoQueryYet /\ \E table \in TableClasses : RegisterTables(table)
    \/ NoQueryYet /\ CreateAll
    \/ NoQueryYet /\ PlanCreateAll
    \/ PlanCreateAllAgain
    \/ NoQueryYet /\ PlanDropAll
    \/ NoQueryYet /\ \E operations \in OwnLists : ValidateOperations(operations)
    \/ NoQueryYet /\ \E operations \in OwnLists : GetParallelGroups(operations)

SpecReadOnly == InitExec /\ [][ReadOnlyNext]_vars

-----------------------------------------------------------------------------
(* Engine: table registration, create_all and drop_all *)

\* Under an Engine the variable `engine` holds the engine's own objects, the
\* strategy engine.ddl_strategy among them; tables, dependencies, dependents
\* and executed_operations are the DDLStrategy that the running or the last
\* create_all or drop_all call of the engine hands its work to:
\* engine.ddl_strategy, or the temporary strategy the call has built.
\* last.at is the position of such a call: "strategy" when the strategy is
\* chosen and about to plan, "returned" when the call has ended.

\* Engine.register_tables(tables) on the engine e: DDLStrategy.register_tables
\* is add_tables on the strategy's graph
register_tables(e, ts) ==
    LET new_tables == SelectSeq(ts, LAMBDA t : t \notin Range(e.registered_tables)) IN
    [registered_tables |-> e.registered_tables \o new_tables,
     dependency_graph |-> add_tables(e.dependency_graph, new_tables),
     ddl_strategy |-> [e.ddl_strategy EXCEPT
                          !.dependency_graph = add_tables(@, new_tables)]]

\* Engine.register_table(table) on the engine e
register_table(e, table) ==
    IF table \notin Range(e.registered_tables)
    THEN [registered_tables |-> Append(e.registered_tables, table),
          dependency_graph |-> add_table(e.dependency_graph, table),
          ddl_strategy |-> [e.ddl_strategy EXCEPT
                               !.dependency_graph = add_tables(@, <<table>>)]]
    ELSE e

\* the table classes an engine is given: two without foreign key, one with a
\* foreign key to company
EngineClasses ==
    {[name |-> "company", fks |-> {}], [name |-> "person", fks |-> {}],
     [name |-> "project", fks |-> {"company"}]}

MaxTables == 2

\* the Engine.create calls of a behaviour
MaxCreates == 1

\* the lists of at most MaxTables classes, a class twice among them
EngineLists == UNION {[1..k -> EngineClasses] : k \in 0..MaxTables}

\* the `tables` argument of create_all and drop_all: None, or a list
NoTables == [given |-> FALSE, list |-> <<>>]

TablesArgs == {NoTables} \cup [given : {TRUE}, list : EngineLists]

\* `if tables:`
Truthy(arg) == arg.given /\ arg.list # <<>>

\* no create_all or drop_all call has been made
EngineIdle == last.method \notin {"Engine.create_all", "Engine.drop_all"}

\* Engine.register_table(table)
EngineRegisterTable(table) ==
    /\ EngineIdle
    /\ engine' = register_table(engine, table)
    /\ last' = [method |-> "Engine.register_table"]
    /\ UNCHANGED <<graphVars, hashOrder, orm, executed_operations, adapterLog, submitted>>

\* Engine.register_tables(tables)
EngineRegisterTables(ts) ==
    /\ EngineIdle
    /\ engine' = register_tables(engine, ts)
    /\ last' = [method |-> "Engine.register_tables"]
    /\ UNCHANGED <<graphVars, hashOrder, orm, executed_operations, adapterLog, submitted>>

\* Engine.clear_registered_tables()
EngineClearRegisteredTables ==
    /\ EngineIdle
    /\ engine' = NewEngine
    /\ last' = [method |-> "Engine.clear_registered_tables"]
    /\ UNCHANGED <<graphVars, hashOrder, orm, executed_operations, adapterLog, submitted>>

\* Engine.create(table): registers the table if it is not, then the adapter's
\* create_table
EngineCreate(table) ==
    /\ EngineIdle
    /\ submitted < MaxCreates
    /\ engine' = register_table(engine, table)
    /\ adapterLog' = Append(adapterLog, AdapterCall("create_table", DDLOperation("CREATE_TABLE", table)))
    /\ submitted' = submitted + 1
    /\ last' = [method |-> "Engine.create"]
    /\ UNCHANGED <<graphVars, hashOrder, orm, executed_operations>>

\* the result {'total': 0, 'successful': 0, 'failed': 0, 'errors': []} that
\* create_all and drop_all return when no table is registered
NothingToDo ==
    [operations |-> <<>>, failAt |-> {}, stop_on_error |-> TRUE, callback |-> NoCallback]

\* Engine.create_all / drop_all up to the strategy call (lines 143-148 and
\* 180-184): e is the engine after the registration the method makes; the
\* strategy in use becomes a temporary one with the tables of a non-empty
\* list, and engine.ddl_strategy otherwise
EngineChooseStrategy(method, arg, e) ==
    LET asked == [method |-> method, tables |-> arg, adapterBefore |-> adapterLog,
                  registeredBefore |-> engine.registered_tables]
        used == IF Truthy(arg)
                THEN [dependency_graph |-> add_tables(EmptyGraph, arg.list),
                      executed_operations |-> <<>>]
                ELSE e.ddl_strategy
    IN  /\ EngineIdle
        /\ engine' = e
        /\ IF ~Truthy(arg) /\ e.registered_tables = <<>>
           THEN /\ last' = asked @@
                      [at |-> "returned", raised |-> FALSE, callback |-> FALSE,
                       call |-> NothingToDo,
                       out |-> execute_operations(NothingToDo, <<>>, adapterLog)]
                /\ UNCHANGED <<graphVars, executed_operations>>
           ELSE /\ last' = asked @@ [at |-> "strategy"]
                /\ tables' = used.dependency_graph.tables
                /\ dependencies' = used.dependency_graph.dependencies
                /\ dependents' = used.dependency_graph.dependents
                /\ executed_operations' = used.executed_operations
        /\ UNCHANGED <<hashOrder, orm, adapterLog, submitted>>

\* Engine.create_all(tables, ...): a non-empty list is registered first
EngineCreateAll(arg) ==
    EngineChooseStrategy("Engine.create_all", arg,
        IF Truthy(arg) THEN register_tables(engine, arg.list) ELSE engine)

\* Engine.drop_all(tables, ...)
EngineDropAll(arg) ==
    EngineChooseStrategy("Engine.drop_all", arg, engine)

\* `result = strategy.create_all(stop_on_error)` (or drop_all) on the plan
\* `plan` of the strategy in use, and the return of the result: the callback
\* (callback says whether one was passed) is not handed to the strategy and
\* not called
EngineExecute(plan, stop, callback, failAt) ==
    LET asked == [method |-> last.method, tables |-> last.tables,
                  adapterBefore |-> last.adapterBefore,
                  registeredBefore |-> last.registeredBefore,
                  at |-> "returned", callback |-> callback]
    IN  IF plan.raised
        THEN /\ last' = asked @@ [raised |-> TRUE, exc |-> plan.exc, cycle |-> plan.cycle]
             /\ UNCHANGED <<engine, executed_operations, adapterLog, submitted>>
        ELSE LET call == [operations |-> plan.value, failAt |-> failAt,
                          stop_on_error |-> stop, callback |-> NoCallback]
                 out == execute_operations(call, executed_operations, adapterLog)
             IN  /\ executed_operations' = out.executed
                 /\ adapterLog' = out.adapter
                 /\ submitted' = submitted + Len(plan.value)
                 /\ engine' = IF Truthy(last.tables) THEN engine
                              ELSE [engine EXCEPT !.ddl_strategy.executed_operations =
                                                     out.executed]
                 /\ last' = asked @@ [raised |-> FALSE, call |-> call, out |-> out]

\* the rest of Engine.create_all (lines 149-165)
EngineCreateAllReturn ==
    /\ last.method = "Engine.create_all"
    /\ last.at = "strategy"
    /\ LET plan == plan_create_all IN
       \E stop \in BOOLEAN, callback \in BOOLEAN : \E failAt \in FailPatterns(plan) :
           EngineExecute(plan, stop, callback, failAt)
    /\ UNCHANGED <<graphVars, hashOrder, orm>>

\* the rest of Engine.drop_all (lines 185-200)
EngineDropAllReturn ==
    /\ last.method = "Engine.drop_all"
    /\ last.at = "strategy"
    /\ LET plan == plan_drop_all IN
       \E stop \in BOOLEAN, callback \in BOOLEAN : \E failAt \in FailPatterns(plan) :
           EngineExecute(plan, stop, callback, failAt)
    /\ UNCHANGED <<graphVars, hashOrder, orm>>

\* create_all and drop_all leave the registration of the engine as
\* register_tables does, so a behaviour is followed up to the return of its
\* first create_all or drop_all.
EngineNext ==
    \/ \E table \in EngineClasses : EngineRegisterTable(table)
    \/ \E ts \in EngineLists : EngineRegisterTables(ts)
    \/ EngineClearRegisteredTables
    \/ \E table \in EngineClasses : EngineCreate(table)
    \/ \E arg \in TablesArgs : EngineCreateAll(arg)
    \/ \E arg \in TablesArgs : EngineDropAll(arg)
    \/ EngineCreateAllReturn
    \/ EngineDropAllReturn

SpecEngine == InitExec /\ [][EngineNext]_vars

-----------------------------------------------------------------------------
(* Table instances and Engine.save *)

\* orm.fields are the values of the Field objects of one Table class with an
\* integer primary key id and a text field name.  The Field objects are
\* attributes of the class (TableMeta and get_fields read cls.__dict__), so
\* every instance reads and writes these same objects.  orm.instances keeps,
\* for each instance made, the values it was given last through its
\* constructor or through a set on one of its fields.  orm.rows are the rows
\* of the class's table in the database.

Ids == {1, 2}

TextValues == {"a", "b"}

\* the keyword arguments of a constructor call: a value for every field
Kwargs == [id : Ids, name : TextValues]

MaxInstances == 2

\* Field.set(value) on the field k, for a value of the field's affinity
set(fields, k, value) == [fields EXCEPT ![k] = value]

RECURSIVE setAll(_, _, _)
\* `for k, v in kwargs.items(): fields[k].set(v)`
setAll(fields, keys, kwargs) ==
    IF keys = {} THEN fields
    ELSE LET k == CHOOSE x \in keys : TRUE IN
         setAll(set(fields, k, kwargs[k]), keys \ {k}, kwargs)

\* Table.__init__(**kwargs): the Field objects of the class receive the values
Table__init__(fields, kwargs) == setAll(fields, DOMAIN kwargs, kwargs)

\* item.<field>.value read through any instance
ValuesOf(o) == o.fields

\* the None that adapter.select returns
NoRow == Unset

\* adapter.select(table, pk): the row with that primary key, or None
select(rows, pk) ==
    IF \E r \in rows : r.id = pk THEN CHOOSE r \in rows : r.id = pk ELSE NoRow

\* Engine.get(table, pk): a stored row is returned as a new instance, built by
\* table(**kwargs) from the row's values
get(o, pk) ==
    LET values == select(o.rows, pk) IN
    IF values # NoRow
    THEN [found |-> TRUE, orm |-> [o EXCEPT !.fields = Table__init__(@, values)]]
    ELSE [found |-> FALSE, orm |-> o]

\* adapter.insert(item): INSERT the item's field values
insert(o) == [o EXCEPT !.rows = @ \cup {ValuesOf(o)}]

\* adapter.update(item): UPDATE ... SET the item's field values WHERE the
\* primary key is the item's
update(o) ==
    [o EXCEPT !.rows = {IF r.id = ValuesOf(o).id THEN ValuesOf(o) ELSE r : r \in @}]

\* Engine.save(item): update if get finds a row with the item's key, else insert
save(o) ==
    LET pk_value == ValuesOf(o).id
        got == get(o, pk_value)
    IN  IF got.found THEN update(got.orm) ELSE insert(got.orm)

\* item = Table(**kwargs)
Construct(kwargs) ==
    /\ Len(orm.instances) < MaxInstances
    /\ orm' = [orm EXCEPT !.fields = Table__init__(@, kwargs),
                          !.instances = Append(@, kwargs)]
    /\ last' = [method |-> "Table.__init__", instance |-> Len(orm.instances) + 1]
    /\ UNCHANGED <<graphVars, hashOrder, engine, executed_operations, adapterLog, submitted>>

\* item.<k>.set(value) through the instance i
FieldSet(i, k, value) ==
    /\ orm' = [orm EXCEPT !.fields = set(@, k, value),
                          !.instances = [@ EXCEPT ![i] = [@ EXCEPT ![k] = value]]]
    /\ last' = [method |-> "Field.set", instance |-> i]
    /\ UNCHANGED <<graphVars, hashOrder, engine, executed_operations, adapterLog, submitted>>

\* Engine.save(item) for the instance i; held keeps the values the item
\* held when save was called
Save(i) ==
    /\ orm' = save(orm)
    /\ last' = [method |-> "Engine.save", instance |-> i, held |-> ValuesOf(orm),
                rowsBefore |-> orm.rows]
    /\ UNCHANGED <<graphVars, hashOrder, engine, executed_operations, adapterLog, submitted>>

\* Engine.get(table, pk); an instance it returns is kept like any other
Get(pk) ==
    /\ Len(orm.instances) < MaxInstances
    /\ LET got == get(orm, pk) IN
       /\ orm' = IF got.found
                 THEN [got.orm EXCEPT !.instances = Append(@, select(orm.rows, pk))]
                 ELSE got.orm
       /\ last' = [method |-> "Engine.get", found |-> got.found]
    /\ UNCHANGED <<graphVars, hashOrder, engine, executed_operations, adapterLog, submitted>>

OrmNext ==
    \/ \E kwargs \in Kwargs : Construct(kwargs)
    \/ \E i \in 1..Len(orm.instances) : \E value \in Ids : FieldSet(i, "id", value)
    \/ \E i \in 1..Len(orm.instances) : \E value \in TextValues : FieldSet(i, "name", value)
    \/ \E i \in 1..Len(orm.instances) : Save(i)
    \/ \E pk \in Ids : Get(pk)

SpecOrm == InitExec /\ [][OrmNext]_vars

-----------------------------------------------------------------------------
(* Properties of the ordering queries *)

\* p is a directed foreign-key cycle of the graph, closed by repeating its start
IsCycleOfGraph(p) ==
    /\ Len(p) >= 2
    /\ p[1] = p[Len(p)]
    /\ \A i \in 1..(Len(p) - 1) : p[i + 1] \in dependencies[p[i]]

HasCycle ==
    \E k \in 2..(Cardinality(Names) + 1) : \E p \in [1..k -> Names] : IsCycleOfGraph(p)

OrderAnswered == last.method = "get_creation_order"

\* C1: on an acyclic graph get_creation_order() returns, and its result holds
\* every registered table exactly once; it raises only on a graph with a cycle.
C1_CreationOrderTotal ==
    OrderAnswered =>
        /\ ~HasCycle =>
              /\ ~last.result.raised
              /\ Len(last.result.value) = Len(tables)
              /\ Range(last.result.value) = Range(tables)
        /\ last.result.raised => HasCycle

C3_CycleReported ==
    (OrderAnswered /\ HasCycle) =>
        /\ last.result.raised
        /\ last.result.exc = "CircularDependencyError"
        /\ IsCycleOfGraph(last.result.cycle)

C3_Witness ==
    /\ OrderAnswered
    /\ HasCycle
    /\ last.result.raised
    /\ Len(last.result.cycle) = 3
    /\ tables[1].name \notin Range(last.result.cycle)
    /\ last.result.cycle[1] \in dependencies[tables[1].name]

C3_WitnessSelf ==
    /\ OrderAnswered
    /\ last.result.raised
    /\ Len(last.result.cycle) = 2

\* get_creation_order() returns only on a graph in which no foreign key joins
\* two registered tables: the queue of _topological_sort is never refilled
OrderReturnedOnlyWithoutEdges ==
    (OrderAnswered /\ ~last.result.raised) =>
        ~\E e \in Edges : e[1] \in Registered /\ e[2] \in Registered

-----------------------------------------------------------------------------
(* Properties of the dependency levels and the neighbour queries *)

LevelsAnswered == last.method = "get_dependency_levels"

\* the levels whose list holds a class named n, and how often a list holds it
LevelsHolding(levels, n) ==
    {lv \in Levels : \E i \in 1..Len(levels[lv]) : levels[lv][i].name = n}

TimesIn(list, n) == Cardinality({i \in 1..Len(list) : list[i].name = n})

\* every registered table stands in exactly one level list, once, as itself
IsPartition(levels) ==
    /\ \A n \in Registered :
          /\ Cardinality(LevelsHolding(levels, n)) = 1
          /\ \A lv \in LevelsHolding(levels, n) :
                /\ TimesIn(levels[lv], n) = 1
                /\ TableOf(n) \in Range(levels[lv])
    /\ \A lv \in Levels : Range(levels[lv]) \subseteq Range(tables)

\* Scenario C: X and Y without foreign key, Z with foreign keys to both
ScenarioC ==
    /\ Len(tables) = 3
    /\ tables[1].fks = {} /\ tables[2].fks = {}
    /\ tables[3].fks = {tables[1].name, tables[2].name}

C11_WitnessChain ==
    /\ LevelsAnswered
    /\ ~last.result.raised
    /\ \A lv \in Levels : Len(last.result.value[lv]) = 1

RECURSIVE Depth(_, _)
\* the longest chain of foreign keys starting at n (fuel bounds the recursion)
Depth(n, fuel) ==
    IF dependencies[n] = {} \/ fuel = 0 THEN 0
    ELSE LET below == {Depth(d, fuel - 1) : d \in dependencies[n]}
         IN  1 + CHOOSE x \in below : \A y \in below : y <= x

\* a cycle can be reached from a registered table
RECURSIVE Reach(_, _)
Reach(S, k) == IF k = 0 THEN S ELSE Reach(S \cup UNION {dependencies[n] : n \in S}, k - 1)

\* the result of get_dependency_levels() under any iteration order: it raises
\* exactly when a registered table reaches a cycle, and else every registered
\* table stands at the level of its longest chain, in insertion order
LevelsAreDepths ==
    LevelsAnswered =>
        IF \E n \in Reach(Registered, Cardinality(Names)) :
              n \in Reach(dependencies[n], Cardinality(Names))
        THEN last.result.raised
        ELSE /\ ~last.result.raised
             /\ \A lv \in Levels :
                   last.result.value[lv] =
                       SelectSeq(tables, LAMBDA t : Depth(t.name, Cardinality(Names)) = lv)

DependenciesAnswered == last.method = "get_dependencies"

DependentsAnswered == last.method = "get_dependents"

\* C12: for a registered table T, get_dependencies(T) returns, and returns the
\* tables T's foreign keys target, also when a target was never registered.
C12_DependenciesOfRegistered ==
    (DependenciesAnswered /\ last.name \in Registered) =>
        /\ ~last.result.raised
        /\ NamesOf(last.result.value) = TableOf(last.name).fks

\* the registered table has no foreign key and no table refers to it
Leaf(n) == n \in Registered /\ dependencies[n] = {} /\ dependents[n] = {}

\* C13 as stated: for a table never passed to add_table, and for a registered
\* table without edges, get_dependencies and get_dependents return the empty
\* set and do not raise.
C13_EmptyForUnregisteredOrLeaf ==
    ((DependenciesAnswered \/ DependentsAnswered)
        /\ (last.name \notin Registered \/ Leaf(last.name))) =>
        /\ ~last.result.raised
        /\ last.result.value = {}

\* C13 amended: neither query raises for an unregistered table or a table
\* without edges. For a table never passed to add_table, get_dependencies
\* returns the empty set and get_dependents returns exactly the registered
\* tables with a foreign key to it (the empty set when no table refers to it);
\* for a registered table without edges both return the empty set.
C13_UnregisteredOrLeaf ==
    /\ DependentsAnswered => ~last.result.raised
    /\ (DependenciesAnswered /\ (last.name \notin Registered \/ Leaf(last.name))) =>
          /\ ~last.result.raised
          /\ last.result.value = {}
    /\ (DependentsAnswered /\ Leaf(last.name)) => last.result.value = {}
    /\ (DependentsAnswered /\ last.name \notin Registered) =>
          last.result.value = {t \in Range(tables) : last.name \in t.fks}

C13_Witness ==
    /\ DependentsAnswered
    /\ last.name \notin Registered
    /\ ~last.result.raised
    /\ Cardinality(last.result.value) = 2

C13_WitnessLeaf ==
    /\ DependenciesAnswered
    /\ Leaf(last.name)
    /\ Len(tables) = 3
    /\ last.result.value = {}

\* C14: the forward and the inverse index are mutual inverses: b is in
\* dependencies[a] exactly when a is in dependents[b].
C14_MutualInverses ==
    \A a \in Names : \A b \in Names : (b \in dependencies[a]) <=> (a \in dependents[b])

C14_Witness ==
    /\ last.method = "add_table"
    /\ Len(tables) = 3
    /\ \E a \in Names : Cardinality(dependencies[a]) = 2
    /\ \E b \in Names : Cardinality(dependents[b]) = 3

\* C15: get_deletion_order() returns the reverse of what get_creation_order()
\* returns on the same graph, and raises the same error when that one raises.
C15_DeletionIsReverse ==
    last.method = "get_deletion_order" =>
        LET creation == get_creation_order IN
        IF creation.raised
        THEN /\ last.result.raised
             /\ last.result.exc = creation.exc
             /\ last.result.cycle = creation.cycle
        ELSE /\ ~last.result.raised
             /\ Len(last.result.value) = Len(creation.value)
             /\ \A i \in 1..Len(creation.value) :
                   last.result.value[i] = creation.value[Len(creation.value) + 1 - i]

C15_Witness ==
    /\ last.method = "get_deletion_order"
    /\ ~last.result.raised
    /\ Len(last.result.value) = 3
    /\ last.result.value[1] = tables[3]

C15_WitnessRaise ==
    /\ last.method = "get_deletion_order"
    /\ last.result.raised
    /\ HasCycle

-----------------------------------------------------------------------------
(* Properties of the queries on operation lists *)

GroupsAnswered == last.method = "get_parallel_groups"

\* the groups that hold an operation on the table named n
GroupsHolding(groups, n) ==
    {g \in 1..Len(groups) : \E i \in 1..Len(groups[g]) : groups[g][i].table.name = n}

AllOfKind(operations, kind) ==
    \A i \in 1..Len(operations) : operations[i].operation_type = kind

\* every group holding a is processed before every group holding b
GroupsBefore(groups, a, b) ==
    \A ga \in GroupsHolding(groups, a) : \A gb \in GroupsHolding(groups, b) : ga < gb

RegisteredEdges == {e \in Edges : e[1] \in Registered /\ e[2] \in Registered /\ e[1] # e[2]}

\* C16: for a list of one DROP_TABLE per registered table the groups come
\* highest level first, so a table is dropped in a later group than every
\* table depending on it; for a list of one CREATE_TABLE per registered table
\* they come lowest level first, every dependency in an earlier group.
C16_GroupsInProcessingOrder ==
    (GroupsAnswered /\ ~HasCycle /\ last.operations \in FullLists) =>
        /\ ~last.result.raised
        /\ AllOfKind(last.operations, "CREATE_TABLE") =>
              \A e \in RegisteredEdges : GroupsBefore(last.result.value, e[2], e[1])
        /\ AllOfKind(last.operations, "DROP_TABLE") =>
              \A e \in RegisteredEdges : GroupsBefore(last.result.value, e[1], e[2])

\* the CREATE_TABLE half of C16 alone
CreateGroupsLowToHigh ==
    (GroupsAnswered /\ ~HasCycle /\ last.operations \in FullLists
        /\ AllOfKind(last.operations, "CREATE_TABLE")) =>
        /\ ~last.result.raised
        /\ \A e \in RegisteredEdges : GroupsBefore(last.result.value, e[2], e[1])

\* how many entries of a list are the operation op
Occurrences(list, op) == Cardinality({i \in 1..Len(list) : list[i] = op})

RECURSIVE Flatten(_)
Flatten(groups) == IF groups = <<>> THEN <<>> ELSE Head(groups) \o Flatten(Tail(groups))

\* C17: get_parallel_groups(ops) returns a partition of ops: every operation
\* is in exactly one group, no group is empty, and two operations share a
\* group exactly when their tables have the same dependency level.
C17_GroupsPartition ==
    GroupsAnswered =>
        /\ ~last.result.raised
        /\ \A op \in Range(last.operations) :
              /\ Occurrences(Flatten(last.result.value), op) = Occurrences(last.operations, op)
              /\ Cardinality({g \in 1..Len(last.result.value) :
                                 op \in Range(last.result.value[g])}) = 1
        /\ \A g \in 1..Len(last.result.value) : last.result.value[g] # <<>>
        /\ \A a \in Range(last.operations) : \A b \in Range(last.operations) :
              (\E g \in 1..Len(last.result.value) :
                  a \in Range(last.result.value[g]) /\ b \in Range(last.result.value[g]))
              <=> (Depth(a.table.name, Cardinality(Names)) = Depth(b.table.name, Cardinality(Names)))

\* what stays true of the groups: on a graph where no registered table reaches
\* a cycle, the operations on registered tables are partitioned by level
GroupsOfRegistered ==
    (GroupsAnswered /\ ~last.result.raised) =>
        /\ \A op \in Range(last.operations) :
              Occurrences(Flatten(last.result.value), op) =
                  IF op.table.name \in Registered THEN Occurrences(last.operations, op) ELSE 0
        /\ \A g \in 1..Len(last.result.value) : last.result.value[g] # <<>>

ValidateAnswered == last.method = "validate_operations"

IssuesOn(kind, op) ==
    Cardinality({k \in 1..Len(last.result.value) :
        last.result.value[k].issue = kind /\ last.result.value[k].operation = StrOp(op)})

PositionsOf(op) == {i \in 1..Len(last.operations) : last.operations[i] = op}

\* the operation at position i repeats the (kind, table name) of an earlier one
Repeats(i) ==
    \E j \in 1..(i - 1) :
        /\ last.operations[j].operation_type = last.operations[i].operation_type
        /\ last.operations[j].table.name = last.operations[i].table.name

HasDependents(op) == op.operation_type = "DROP_TABLE" /\ dependents[op.table.name] # {}

\* C18: validate_operations(ops) never raises and returns one issue per
\* operation repeating an earlier (kind, table name), one per operation on a
\* table that is not registered, one per DROP_TABLE of a table with a
\* dependent, and nothing else.
C18_ValidateIssues ==
    ValidateAnswered =>
        /\ ~last.result.raised
        /\ \A op \in Range(last.operations) :
              /\ IssuesOn("Duplicate operation", op) =
                    Cardinality({i \in PositionsOf(op) : Repeats(i)})
              /\ IssuesOn("Operation on unregistered table", op) =
                    IF op.table.name \in Registered THEN 0 ELSE Cardinality(PositionsOf(op))
              /\ IssuesOn("DROP has dependents", op) =
                    IF HasDependents(op) THEN Cardinality(PositionsOf(op)) ELSE 0
        /\ \A k \in 1..Len(last.result.value) :
              /\ \E op \in Range(last.operations) : last.result.value[k].operation = StrOp(op)
              /\ last.result.value[k].issue \in
                    {"Duplicate operation", "Operation on unregistered table", "DROP has dependents"}
        /\ ( \A i \in 1..Len(last.operations) :
                 /\ ~Repeats(i)
                 /\ last.operations[i].table.name \in Registered
                 /\ ~HasDependents(last.operations[i]) )
           => last.result.value = <<>>

C18_Witness ==
    /\ ValidateAnswered
    /\ ~last.result.raised
    /\ \A kind \in {"Duplicate operation", "Operation on unregistered table", "DROP has dependents"} :
          \E k \in 1..Len(last.result.value) : last.result.value[k].issue = kind

C18_WitnessClean ==
    /\ ValidateAnswered
    /\ Len(last.operations) = 3
    /\ AllOfKind(last.operations, "DROP_TABLE")
    /\ last.result.value = <<>>

-----------------------------------------------------------------------------
(* Properties of execute_operation and execute_operations *)

BatchAnswered == last.method = "execute_operations"

\* the adapter calls the last call on the strategy added
NewAdapterCalls == SubSeq(adapterLog, Len(last.adapterBefore) + 1, Len(adapterLog))

\* what the inputs of the last batch call say, position by position
OpFails(i) ==
    \/ ~UsesAdapter(last.call.operations[i])
    \/ i \in last.call.failAt

ErrOf(i) ==
    IF ~UsesAdapter(last.call.operations[i]) THEN NotImplemented(last.call.operations[i])
    ELSE IF i \in last.call.failAt THEN AdapterError(last.call.operations[i])
    ELSE CallbackError

\* position i is counted in failed: its operation fails, or the callback
\* raises on being told of its success
CountedFailed(i) ==
    OpFails(i) \/ (last.call.callback.given /\ TRUE \in last.call.callback.raisesOn)

\* the callback raises on being told of the failure at position i
EscapesAt(i) ==
    CountedFailed(i) /\ last.call.callback.given /\ FALSE \in last.call.callback.raisesOn

EndsAt(i) == EscapesAt(i) \/ (last.call.stop_on_error /\ CountedFailed(i))

Positions == 1..Len(last.call.operations)

LastAttempted ==
    IF \E i \in Positions : EndsAt(i)
    THEN CHOOSE i \in Positions : EndsAt(i) /\ \A j \in 1..(i - 1) : ~EndsAt(j)
    ELSE Len(last.call.operations)

PositionSeq == [i \in Positions |-> i]

MethodFor(op) == IF op.operation_type = "CREATE_TABLE" THEN "create_table" ELSE "drop_table"

\* the adapter calls for the CREATE/DROP operations at positions 1..m, in order
AdapterCallsUpTo(m) ==
    LET ps == SelectSeq(PositionSeq, LAMBDA i : i <= m /\ UsesAdapter(last.call.operations[i]))
    IN  [k \in 1..Len(ps) |->
            AdapterCall(MethodFor(last.call.operations[ps[k]]), last.call.operations[ps[k]])]

EventsOf(ev) == SelectSeq(last.out.events, LAMBDA e : e.ev = ev)

EventIndexes(ev, i) ==
    {k \in 1..Len(last.out.events) :
        last.out.events[k].ev = ev /\ last.out.events[k].index = i}

\* C4: a returned result has successful + failed = total in continue mode;
\* in stop mode successful + failed <= total, and the gap is the number of
\* operations after the first failing one.
C4_Accounting ==
    (BatchAnswered /\ last.out.escaped = None) =>
        LET failing == {i \in Positions : OpFails(i)}
            first == CHOOSE i \in failing : \A j \in failing : i <= j
            done == last.out.successful + last.out.failed
        IN  /\ last.out.total = Len(last.call.operations)
            /\ ~last.call.stop_on_error => done = last.out.total
            /\ last.call.stop_on_error =>
                  /\ done <= last.out.total
                  /\ last.out.total - done =
                        IF failing = {} THEN 0 ELSE last.out.total - first

\* C5: in stop mode a failing adapter call is the last adapter call of the
\* batch; three creates whose second fails give total 3, successful 1, failed 1
\* and two adapter calls.
C5_StopAfterFailure ==
    (BatchAnswered /\ last.call.stop_on_error) =>
        /\ Len(NewAdapterCalls) = Len(EventsOf("adapter"))
        /\ \A k \in 1..Len(NewAdapterCalls) :
              /\ NewAdapterCalls[k].table = EventsOf("adapter")[k].operation.table
              /\ ~EventsOf("adapter")[k].success => k = Len(NewAdapterCalls)
        /\ \A i \in last.call.failAt : \A j \in Positions :
              (j > i /\ EventIndexes("adapter", i) # {}) => EventIndexes("adapter", j) = {}
        /\ ( /\ Len(last.call.operations) = 3
             /\ \A i \in Positions : last.call.operations[i].operation_type = "CREATE_TABLE"
             /\ last.call.failAt = {2}
             /\ EventIndexes("adapter", 2) # {}
             /\ last.out.escaped = None )
           => /\ last.out.total = 3
              /\ last.out.successful = 1
              /\ last.out.failed = 1
              /\ Len(NewAdapterCalls) = 2

C5_Witness ==
    /\ BatchAnswered
    /\ last.call.stop_on_error
    /\ Len(last.call.operations) = 3
    /\ \A i \in Positions : last.call.operations[i].operation_type = "CREATE_TABLE"
    /\ last.call.failAt = {2}
    /\ last.out.escaped = None
    /\ last.out.failed = 1
    /\ Len(NewAdapterCalls) = 2

\* C6 as stated: in continue mode every operation of the list is passed to
\* the adapter exactly once, in list order.
C6_EveryOperationReachesAdapter ==
    (BatchAnswered /\ ~last.call.stop_on_error) =>
        /\ Len(NewAdapterCalls) = Len(last.call.operations)
        /\ \A i \in Positions : NewAdapterCalls[i].table = last.call.operations[i].table

\* C6 amended: in continue mode the adapter receives exactly the CREATE_TABLE
\* and DROP_TABLE operations of the list, once each and in list order, whatever
\* failed before them; an operation of another kind never reaches the adapter;
\* the list is cut short only where the callback raises on a failure report.
C6_CreateDropReachAdapterInOrder ==
    (BatchAnswered /\ ~last.call.stop_on_error) =>
        /\ NewAdapterCalls = AdapterCallsUpTo(LastAttempted)
        /\ last.out.escaped = None => LastAttempted = Len(last.call.operations)
        /\ last.out.escaped # None => EscapesAt(LastAttempted)

C6_Witness ==
    /\ BatchAnswered
    /\ ~last.call.stop_on_error
    /\ last.out.escaped = None
    /\ Len(last.call.operations) = 3
    /\ last.call.failAt = {1, 2}
    /\ Len(NewAdapterCalls) = 3

\* C7: execute_operation(op) appends exactly op to executed_operations when
\* the adapter call returns; when the adapter call raises, that exception
\* comes out and executed_operations is as before.
C7_ExecuteOperation ==
    last.method = "execute_operation" =>
        /\ (UsesAdapter(last.operation) /\ ~last.fails) =>
              /\ last.exc = None
              /\ executed_operations = Append(last.executedBefore, last.operation)
        /\ last.fails =>
              /\ last.exc = AdapterError(last.operation)
              /\ executed_operations = last.executedBefore
        /\ UsesAdapter(last.operation) =>
              NewAdapterCalls = <<AdapterCall(MethodFor(last.operation), last.operation)>>

C7_Witness ==
    /\ last.method = "execute_operation"
    /\ last.fails
    /\ last.executedBefore # <<>>
    /\ last.exc.type = "OperationalError"

C7_WitnessSuccess ==
    /\ last.method = "execute_operation"
    /\ last.exc = None
    /\ Len(executed_operations) = 2

\* the entries the errors list must hold: one per failed position, in order
ExpectedErrors ==
    LET ps == SelectSeq(PositionSeq, LAMBDA i : i <= LastAttempted /\ CountedFailed(i))
    IN  [k \in 1..Len(ps) |->
            [operation |-> <<last.call.operations[ps[k]].operation_type,
                             last.call.operations[ps[k]].table.name>>,
             error |-> ErrOf(ps[k]).error,
             type |-> ErrOf(ps[k]).type]]

\* C8: in both modes the returned errors list holds one entry per failed
\* operation, in the order of the failures, with the operation's description,
\* the error's message and its type name; its length is failed; and no
\* exception of an adapter call comes out of execute_operations.
C8_ErrorsRecorded ==
    BatchAnswered =>
        /\ Len(last.out.errors) = last.out.failed
        /\ last.out.escaped = None => last.out.errors = ExpectedErrors
        /\ last.out.escaped \in {None, CallbackError}
        /\ \A i \in Positions :
              (i \in last.call.failAt /\ i <= LastAttempted /\ last.out.escaped = None) =>
                  \E k \in 1..Len(last.out.errors) :
                      /\ last.out.errors[k].type = "OperationalError"
                      /\ last.out.errors[k].operation = StrOp(last.call.operations[i])

C8_Witness ==
    /\ BatchAnswered
    /\ last.out.escaped = None
    /\ last.out.failed = 2
    /\ last.call.failAt # {}
    /\ last.out.errors[1].type # last.out.errors[2].type

C8_WitnessStop ==
    /\ BatchAnswered
    /\ last.call.stop_on_error
    /\ last.out.escaped = None
    /\ last.call.failAt = {2}
    /\ Len(last.out.errors) = 1

\* C9: a given callback is called exactly once per attempted operation, after
\* the operation's adapter call and before the next operation starts, with
\* (operation, True, None) when the operation succeeded and (operation, False,
\* its exception) when it failed, and never for an operation not attempted.
C9_CallbackOncePerAttempt ==
    (BatchAnswered /\ last.call.callback.given) =>
        \A i \in Positions :
            IF EventIndexes("start", i) = {} THEN EventIndexes("callback", i) = {}
            ELSE /\ Cardinality(EventIndexes("callback", i)) = 1
                 /\ \A k \in EventIndexes("callback", i) :
                       /\ \A a \in EventIndexes("adapter", i) : a < k
                       /\ \A n \in EventIndexes("start", i + 1) : k < n
                       /\ last.out.events[k].operation = last.call.operations[i]
                       /\ last.out.events[k].success = ~OpFails(i)
                       /\ last.out.events[k].exception = IF OpFails(i) THEN ErrOf(i) ELSE None

\* the operations of the last batch whose adapter call returned, in list order
SucceededOps ==
    LET ps == SelectSeq(PositionSeq,
                  LAMBDA i : i <= LastAttempted /\ UsesAdapter(last.call.operations[i])
                             /\ i \notin last.call.failAt)
    IN  [k \in 1..Len(ps) |-> last.call.operations[ps[k]]]

IsPrefix(s, t) == Len(s) <= Len(t) /\ SubSeq(t, 1, Len(s)) = s

\* C20: there is no rollback. After an execute_operations call the adapter has
\* received the calls of the attempted operations and no other, every
\* operation whose adapter call returned is in executed_operations behind the
\* earlier entries, whatever failed after it; and over any sequence of calls
\* executed_operations only grows by appending.
C20_NoRollback ==
    /\ [](BatchAnswered =>
            /\ NewAdapterCalls = AdapterCallsUpTo(LastAttempted)
            /\ executed_operations = last.executedBefore \o SucceededOps)
    /\ [][IsPrefix(executed_operations, executed_operations')
           /\ IsPrefix(adapterLog, adapterLog')]_vars

C20_Witness ==
    /\ BatchAnswered
    /\ Len(last.call.operations) = 3
    /\ last.call.failAt = {2, 3}
    /\ last.out.failed = 2
    /\ last.call.operations[1].operation_type = "CREATE_TABLE"
    /\ Len(NewAdapterCalls) = 3
    /\ executed_operations = <<last.call.operations[1]>>

C20_WitnessHistory ==
    /\ BatchAnswered
    /\ last.executedBefore # <<>>
    /\ last.out.successful >= 1
    /\ last.out.failed >= 1
    /\ Len(executed_operations) > Len(last.executedBefore)

\* C28: in a returned result every attempted operation is counted in exactly
\* one of successful and failed, also when the callback raises: an operation
\* whose adapter call succeeded is counted in successful only and has no entry
\* in errors, so successful + failed is the number of attempted operations and
\* never exceeds total.
C28_CountedExactlyOnce ==
    (BatchAnswered /\ last.out.escaped = None) =>
        LET attempted == {i \in Positions : EventIndexes("start", i) # {}}
            succeeded == {i \in attempted : ~OpFails(i)}
        IN  /\ last.out.successful = Cardinality(succeeded)
            /\ last.out.failed = Cardinality(attempted \ succeeded)
            /\ Len(last.out.errors) = Cardinality(attempted \ succeeded)
            /\ last.out.successful + last.out.failed <= last.out.total

-----------------------------------------------------------------------------
(* Properties of a raising ordering query *)

OrderingQueries == {"get_creation_order", "get_deletion_order"}

\* C21: a get_creation_order() or get_deletion_order() call that raises
\* CircularDependencyError leaves tables, dependencies and dependents as they
\* were, and get_dependencies and get_dependents answer for every name what
\* they answered before the call.
C21_RaisingQueryLeavesGraph ==
    [][(last'.method \in OrderingQueries /\ last'.result.raised) =>
          /\ last'.result.exc = "CircularDependencyError"
          /\ UNCHANGED <<tables, dependencies, dependents>>
          /\ \A n \in Names :
                /\ get_dependencies(n)' = get_dependencies(n)
                /\ get_dependents(n)' = get_dependents(n)]_vars

C21_Witness ==
    /\ last.method = "get_creation_order"
    /\ last.result.raised
    /\ last.result.cycle # NoCycle
    /\ Len(tables) = 3
    /\ \E n \in Names : ~get_dependents(n).raised /\ get_dependents(n).value # {}

C21_WitnessDeletion ==
    /\ last.method = "get_deletion_order"
    /\ last.result.raised
    /\ HasCycle
    /\ \E n \in Names : ~get_dependencies(n).raised /\ get_dependencies(n).value # {}

-----------------------------------------------------------------------------
(* Properties of the recursion of get_dependency_levels *)

\* C27: on every graph add_table can build, with a cycle or a self-reference
\* too, get_dependency_levels() ends with a result or an error of its own: no
\* get_level call meets a table whose own call is still running, which is a
\* recursion that nothing in the method bounds.
C27_LevelsRecursionBounded ==
    LevelsAnswered => ~(last.result.raised /\ last.result.exc = "RecursionError")

-----------------------------------------------------------------------------
(* Properties of add_tables *)

\* C22: the registered tables have pairwise distinct names, and add_tables on
\* any permutation of them gives the same set of registered names, the same
\* dependencies and the same dependents; adding a registered table once more
\* leaves the graph as it is.
C22_AddTablesOrderFree ==
    /\ \A p \in Perms(Range(tables)) :
          LET g == add_tables(EmptyGraph, p) IN
          /\ {g.tables[i].name : i \in 1..Len(g.tables)} = Registered
          /\ g.dependencies = dependencies
          /\ g.dependents = dependents
    /\ \A i \in 1..Len(tables) : add_table(Graph, tables[i]) = Graph

\* three tables with foreign keys among them, the last call a second add_table
\* of a table that was registered before another one
C22_Witness ==
    /\ last.method = "add_table"
    /\ Len(tables) = 3
    /\ last.table \in Range(tables)
    /\ last.table # tables[3]
    /\ \E a, b \in Registered : a # b /\ dependents[a] # {} /\ dependents[b] # {}

-----------------------------------------------------------------------------
(* Properties of planning and the queries being read-only *)

\* C19: plan_create_all, plan_drop_all, validate_operations and
\* get_parallel_groups make no adapter call and leave the graph (tables,
\* dependencies, dependents) and executed_operations as they were.
C19_QueriesReadOnly ==
    [][(last'.method \in ReadOnlyMethods) =>
          UNCHANGED <<tables, dependencies, dependents, executed_operations, adapterLog>>]_vars

C19_Witness ==
    /\ last.method = "plan_create_all"
    /\ ~last.result.raised
    /\ Len(last.result.value) = 2
    /\ executed_operations # <<>>
    /\ Len(adapterLog) > Len(executed_operations)

C19_WitnessGroups ==
    /\ last.method = "get_parallel_groups"
    /\ ~last.result.raised
    /\ Len(last.result.value) = 2
    /\ executed_operations # <<>>

C23_WitnessRaise ==
    /\ last.method = "plan_create_all_again"
    /\ last.result.raised
    /\ last.result.cycle # NoCycle

-----------------------------------------------------------------------------
(* Properties of create_all and drop_all *)

AllAnswered == last.method \in {"create_all", "drop_all"}

\* C10: on a graph with a cycle create_all and drop_all raise
\* CircularDependencyError and return no result; the adapter has received no
\* call and executed_operations is as before.
C10_CycleRaisesBeforeAdapter ==
    (AllAnswered /\ HasCycle) =>
        /\ last.raised
        /\ last.exc = "CircularDependencyError"
        /\ adapterLog = last.adapterBefore
        /\ executed_operations = last.executedBefore

C10_Witness ==
    /\ last.method = "create_all"
    /\ HasCycle
    /\ last.raised
    /\ last.adapterBefore # <<>>
    /\ last.executedBefore # <<>>

C10_WitnessDrop ==
    /\ last.method = "drop_all"
    /\ HasCycle
    /\ last.raised
    /\ Len(tables) = 3

-----------------------------------------------------------------------------
(* Properties of the Engine *)

EngineAnswered ==
    /\ last.method \in {"Engine.create_all", "Engine.drop_all"}
    /\ last.at = "returned"

\* C24: Engine.create_all and Engine.drop_all act on all registered tables
\* only when tables is None; when a list is passed, the adapter is called for
\* tables of that list only.
C24_ListLimitsTheCall ==
    (EngineAnswered /\ last.tables.given) =>
        \A k \in 1..Len(NewAdapterCalls) :
            NewAdapterCalls[k].table \in Range(last.tables.list)

\* C25: a callback passed to Engine.create_all or Engine.drop_all is called
\* once after each executed operation.
C25_EngineCallbackCalled ==
    (EngineAnswered /\ last.callback /\ ~last.raised) =>
        \A i \in Positions :
            EventIndexes("start", i) # {} =>
                /\ Cardinality(EventIndexes("callback", i)) = 1
                /\ \A k \in EventIndexes("callback", i) :
                      \A a \in EventIndexes("adapter", i) : a < k

\* the engine's graph and its strategy's graph hold the same tables and
\* edges, those of the registered tables
EngineGraphsAgree ==
    LET g == add_tables(EmptyGraph, engine.registered_tables) IN
    /\ engine.dependency_graph = engine.ddl_strategy.dependency_graph
    /\ Range(engine.dependency_graph.tables) = Range(engine.registered_tables)
    /\ engine.dependency_graph.dependencies = g.dependencies
    /\ engine.dependency_graph.dependents = g.dependents

\* C29: after any sequence of register_table, register_tables, create,
\* create_all and clear_registered_tables, get_registered_tables() holds no
\* table twice, and the engine's graph and its strategy's graph hold exactly
\* the tables and edges of that list.
C29_RegisteredOnce ==
    /\ \A i, j \in 1..Len(engine.registered_tables) :
          engine.registered_tables[i] = engine.registered_tables[j] => i = j
    /\ EngineGraphsAgree

-----------------------------------------------------------------------------
(* Properties of Table instances and Engine.save *)

\* C30: the field values of two instances of one Table class are
\* independent: every instance reads the values it was given last, whatever
\* was constructed or set through another instance since.
C30_InstancesIndependent ==
    \A i \in 1..Len(orm.instances) : ValuesOf(orm) = orm.instances[i]

\* C26: after Engine.save(item) there is exactly one row with the item's
\* primary key, and it holds the values the item held when save was called:
\* inserted when no such row existed, updated to them otherwise.
C26_SaveStoresItem ==
    (last.method = "Engine.save") =>
        /\ last.held \in orm.rows
        /\ \A r \in orm.rows : r.id = last.held.id => r = last.held
        /\ \A r \in last.rowsBefore : r.id # last.held.id => r \in orm.rows

=============================================================================
